---- MODULE Spec2Model ----
(***************************************************************************)
(* Model of the JTOK tokenizer (src/JTOK/src/jtok.c, jtok_object.c) and of *)
(* its caller json_parse (src/jsons.c).                                    *)
(*                                                                         *)
(* The input buffer is the byte sequence json.  Its bytes are revealed by  *)
(* the action Feed at the moment the parser first reads them, so that the  *)
(* reachable states cover every input over Alphabet within the bounds and  *)
(* not a hand-picked list.  The C offset p is json[p + 1]; the terminating *)
(* NUL byte is the byte NUL.                                               *)
(*                                                                         *)
(* The recursion of jtok_parse_object / jtok_parse_array is the sequence   *)
(* stack of frames; pc = "ret" is the moment a callee has handed status    *)
(* back to the frame on top of the stack (or to jtok_parse).               *)
(***************************************************************************)
EXTENDS Integers, Sequences, FiniteSets, TLC

VARIABLES json, cap, tokens, pos, toknext, toksuper, last_child,
          stack, status, pc, prev, script, call, ret, args

vars == <<json, cap, tokens, pos, toknext, toksuper, last_child,
          stack, status, pc, prev, script, call, ret, args>>

parser == <<pos, toknext, toksuper, last_child>>

\* what the parser routines leave alone
Env == <<json, cap, prev, script, call, ret, args>>

(* ------------------------------ bounds -------------------------------- *)
MaxLen == 12
MaxWs == 1
MaxStrLen == 1
MaxPrimLen == 1
PoolMax == 5
DstLen == 2
MaxTrail == 2

(* ------------------------ constants of jtok.h ------------------------- *)
NO_PARENT_IDX == -1
NO_SIBLING_IDX == -1
NO_CHILD_IDX == -1
INVALID_ARRAY_INDEX == -1
JTOK_MAX_RECURSE_DEPTH == 1
UINT16_MAX == 65535
sizeof_jtok_tkn_t == 40
JSON_TKN_CNT == PoolMax

JTOK_PRIMITIVE == "JTOK_PRIMITIVE"
JTOK_OBJECT == "JTOK_OBJECT"
JTOK_ARRAY == "JTOK_ARRAY"
JTOK_STRING == "JTOK_STRING"
JTOK_UNASSIGNED_TOKEN == "JTOK_UNASSIGNED_TOKEN"

OK == "OK"
NOMEM == "NOMEM"
INVAL == "INVAL"
PARTIAL_TOKEN == "PARTIAL_TOKEN"
KEY_NO_VAL == "KEY_NO_VAL"
INVALID_PRIMITIVE == "INVALID_PRIMITIVE"
NULL_PARAM == "NULL_PARAM"
NON_OBJECT == "NON_OBJECT"
OBJ_NOKEY == "OBJ_NOKEY"
MIXED_ARRAY == "MIXED_ARRAY"
STRAY_COMMA == "STRAY_COMMA"
VAL_NO_COLON == "VAL_NO_COLON"
KEY_MULTIPLE_VAL == "KEY_MULTIPLE_VAL"
INVALID_PARENT == "INVALID_PARENT"
VAL_NO_COMMA == "VAL_NO_COMMA"
NON_ARRAY == "NON_ARRAY"
NEST_DEPTH_EXCEEDED == "NEST_DEPTH_EXCEEDED"

(* ------------------------------- bytes -------------------------------- *)
NUL == "NUL"
Quote == "\""
Whitespace == {" "}
PrimLead == {"1", "t"}
PrimTerm == {",", "]", "}"} \cup Whitespace
StrBytes == {"a"}
PrimBytes == {"1"}
Alphabet == {"{", "}", "[", "]", Quote, ":", ",", " ", "1", "t", "a"}

At(p) == json[p + 1]
Revealed(p) == p >= 0 /\ p < Len(json)
Top == stack[Len(stack)]
Pop == SubSeq(stack, 1, Len(stack) - 1)
SetTop(f) == [stack EXCEPT ![Len(stack)] = f]

(* ------------------------------ tokens -------------------------------- *)
\* a slot of the static, zero-initialised array tkns of json_parse
ZeroTkn ==
  [type |-> JTOK_PRIMITIVE, start |-> 0, end |-> 0, size |-> 0,
   parent |-> 0, sibling |-> 0]

\* jtok_alloc_token followed by jtok_fill_token
NewTkn(type, start, end, parent) ==
  [type |-> type, start |-> start, end |-> end, size |-> 0,
   parent |-> parent, sibling |-> NO_SIBLING_IDX]

\* jtok_alloc_token returns NULL
PoolFull == toknext = cap

NoPrev == [json |-> <<>>, tokens |-> <<>>, n |-> 0, how |-> "none"]
NoCall == [op |-> "none"]

\* the pointers a caller hands to jtok_parse: each may be NULL
Args == [json_null : BOOLEAN, tkns_null : BOOLEAN]
NoNull == [json_null |-> FALSE, tkns_null |-> FALSE]

Init ==
  /\ json = <<>>
  /\ cap \in {0, PoolMax}
  /\ tokens = [i \in 0..(PoolMax - 1) |-> ZeroTkn]
  /\ pos = 0
  /\ toknext = 0
  /\ toksuper = NO_PARENT_IDX
  /\ last_child = NO_CHILD_IDX
  /\ stack = <<>>
  /\ status = OK
  /\ pc = "idle"
  /\ prev = NoPrev
  /\ script = <<>>
  /\ call = NoCall
  /\ ret = 0
  /\ args \in Args


(* ----------------------- sub-parsers (scanning) ----------------------- *)
MinOf(S) == CHOOSE x \in S : \A y \in S : x <= y

\* offset of the byte that ends the string opened at p: the closing quote,
\* or the NUL that leaves it unterminated; -1 while not yet revealed
StrClose(p) ==
  LET S == {q \in (p + 1)..(Len(json) - 1) : At(q) \in {Quote, NUL}}
  IN  IF S = {} THEN -1 ELSE MinOf(S)

\* offset of the first terminator (or NUL) after the primitive that starts at p
PrimStop(p) ==
  LET S == {q \in (p + 1)..(Len(json) - 1) : At(q) \in PrimTerm \cup {NUL}}
  IN  IF S = {} THEN -1 ELSE MinOf(S)

Digits == {"0", "1", "2", "3", "4", "5", "6", "7", "8", "9"}

\* the captured range is true, false, null or an integer without a leading
\* zero (fractions and exponents use bytes that are outside Alphabet)
ValidPrimitive(s) ==
  \/ s \in {<<"t", "r", "u", "e">>, <<"f", "a", "l", "s", "e">>,
            <<"n", "u", "l", "l">>}
  \/ LET d == IF s # <<>> /\ s[1] \in {"+", "-"} THEN Tail(s) ELSE s
     IN  /\ d # <<>>
         /\ \A k \in 1..Len(d) : d[k] \in Digits
         /\ (Len(d) > 1 => d[1] # "0")

NoTkn == ZeroTkn

\* jtok_parse_string called with pos = p on the opening quote; on success
\* pos is left on the closing quote (the caller's loop steps over it)
jtok_parse_string(p) ==
  LET q == StrClose(p)
  IN  IF At(q) = NUL
        THEN [status |-> PARTIAL_TOKEN, pos |-> p, tok |-> NoTkn]
      ELSE IF PoolFull
        THEN [status |-> NOMEM, pos |-> p, tok |-> NoTkn]
      ELSE [status |-> OK, pos |-> q,
            tok |-> NewTkn(JTOK_STRING, p + 1, q, toksuper)]

\* jtok_parse_primitive called with pos = p on the lead byte; on success pos
\* is left on the last byte of the primitive, the terminator is not consumed
jtok_parse_primitive(p) ==
  LET q == PrimStop(p)
  IN  IF At(q) = NUL
        THEN [status |-> PARTIAL_TOKEN, pos |-> p, tok |-> NoTkn]
      ELSE IF ~ValidPrimitive(SubSeq(json, p + 1, q))
        THEN [status |-> INVALID_PRIMITIVE, pos |-> p, tok |-> NoTkn]
      ELSE IF PoolFull
        THEN [status |-> NOMEM, pos |-> p, tok |-> NoTkn]
      ELSE [status |-> OK, pos |-> q - 1,
            tok |-> NewTkn(JTOK_PRIMITIVE, p, q, toksuper)]

(* --------------------------- input stream ----------------------------- *)
InObjFrame == pc = "run" /\ stack # <<>> /\ Top.kind = "obj"
InArrFrame == pc = "run" /\ stack # <<>> /\ Top.kind = "arr"

\* the handler of the byte at pos calls jtok_parse_string
CallsString ==
  /\ pc = "run" /\ Revealed(pos) /\ At(pos) = Quote
  /\ \/ /\ InObjFrame /\ Top.expecting = "KEY"
        /\ tokens[toksuper].type = JTOK_OBJECT
     \/ /\ InObjFrame /\ Top.expecting = "VALUE"
        /\ tokens[toksuper].type = JTOK_STRING
        /\ tokens[toksuper].size = 0
     \/ InArrFrame /\ Top.expecting \in {"VALUE_OR_END", "VALUE"}

\* the handler of the byte at pos calls jtok_parse_primitive
CallsPrimitive ==
  /\ pc = "run" /\ Revealed(pos) /\ At(pos) \in PrimLead
  /\ \/ /\ InObjFrame /\ Top.expecting = "VALUE"
        /\ tokens[toksuper].type = JTOK_STRING
        /\ tokens[toksuper].size = 0
     \/ InArrFrame /\ Top.expecting \in {"VALUE_OR_END", "VALUE"}

\* the terminating NUL of the input has been revealed
Ended == IF json = <<>> THEN FALSE ELSE json[Len(json)] = NUL

\* mutant: the capacity is looked at before the pointers
ParseArgStatus_size_first ==
  IF cap < 1 THEN NOMEM
  ELSE IF args.json_null THEN NULL_PARAM
  ELSE IF args.tkns_null THEN NULL_PARAM
  ELSE OK

\* the argument checks of jtok_parse, OK when the parser is created
ParseArgStatus ==
  IF args.json_null THEN NULL_PARAM
  ELSE IF args.tkns_null THEN NULL_PARAM
  ELSE IF cap < 1 THEN NOMEM
  ELSE OK

\* the parser is about to read a byte that has not been revealed yet
NeedByte ==
  /\ ~Ended
  /\ \/ /\ pc = "idle" /\ ParseArgStatus = OK
        /\ \A q \in 0..(Len(json) - 1) : At(q) \in Whitespace
     \/ /\ pc = "run"
        /\ \/ ~Revealed(pos)
           \/ CallsString /\ StrClose(pos) = -1
           \/ CallsPrimitive /\ PrimStop(pos) = -1

WsCount == Cardinality({q \in 1..Len(json) : json[q] \in Whitespace})

FeedSet ==
  IF CallsString
    THEN {Quote, NUL} \cup
         (IF Len(json) - (pos + 1) < MaxStrLen THEN StrBytes ELSE {})
  ELSE IF CallsPrimitive
    THEN PrimTerm \cup {NUL} \cup
         (IF Len(json) - pos < MaxPrimLen THEN PrimBytes ELSE {})
  ELSE Alphabet \cup {NUL}

\* the caller's buffer: the next byte of the input, NUL where it ends
Feed(b) ==
  /\ NeedByte
  /\ b \in FeedSet
  /\ IF script # <<>>
       THEN b = NUL
       ELSE /\ b \in Whitespace => WsCount < MaxWs
            /\ b # NUL => Len(json) < MaxLen
  /\ json' = Append(json, b)
  /\ UNCHANGED <<cap, tokens, parser, stack, status, pc, prev, script,
                 call, ret, args>>

(* -------------------------- jtok_parse_object ------------------------- *)
Frame(kind, start, expecting, index, depth) ==
  [kind |-> kind, start |-> start, expecting |-> expecting, index |-> index,
   depth |-> depth, calling |-> "none", key_idx |-> NO_PARENT_IDX,
   saved |-> NO_CHILD_IDX]

\* mutant: the size of the key is not incremented
BindValue_skipped(t, key_idx) == t

\* tokens[key_idx].size++ behind the check key_idx != NO_PARENT_IDX
BindValue(t, key_idx) ==
  IF key_idx # NO_PARENT_IDX
    THEN [t EXCEPT ![key_idx].size = @ + 1]
    ELSE t

\* mutant: the previous key is not linked to the new one
LinkSibling_skipped(t, lc, new) == t

\* "Link previous child to current child"
LinkSibling(t, lc, new) ==
  IF lc # NO_CHILD_IDX
    THEN [t EXCEPT ![lc].sibling = new]
    ELSE t

\* mutant: the pool is taken to be full one token early
ObjEntryStatus_full_early(depth, p, tn) ==
  IF depth > JTOK_MAX_RECURSE_DEPTH THEN NEST_DEPTH_EXCEEDED
  ELSE IF At(p) # "{" THEN NON_OBJECT
  ELSE IF tn + 1 >= cap THEN NOMEM
  ELSE OK

\* mutant: the depth check lets one more level through
ObjEntryStatus_deeper(depth, p, tn) ==
  IF depth > JTOK_MAX_RECURSE_DEPTH + 1 THEN NEST_DEPTH_EXCEEDED
  ELSE IF At(p) # "{" THEN NON_OBJECT
  ELSE IF tn = cap THEN NOMEM
  ELSE OK

\* mutant: the result of jtok_alloc_token is not checked
ObjEntryStatus_unchecked(depth, p, tn) ==
  IF depth > JTOK_MAX_RECURSE_DEPTH THEN NEST_DEPTH_EXCEEDED
  ELSE IF At(p) # "{" THEN NON_OBJECT
  ELSE OK

\* status of the entry of jtok_parse_object(parser, depth) with pos = p and
\* tn tokens in use
ObjEntryStatus(depth, p, tn) ==
  IF depth > JTOK_MAX_RECURSE_DEPTH THEN NEST_DEPTH_EXCEEDED
  ELSE IF At(p) # "{" THEN NON_OBJECT
  ELSE IF tn = cap THEN NOMEM
  ELSE OK

\* mutant: the parent of the new token is not set
ObjParent_unset(sup, tn) == NO_PARENT_IDX

\* mutant: the new token is its own parent
ObjParent_self(sup, tn) == tn

\* token->parent = parser->toksuper for the slot tn just allocated
ObjParent(sup, tn) == sup

\* entry of jtok_parse_object up to the loop: the OBJECT token is allocated
\* and becomes toksuper
ObjEntry(depth, p, tn, sup, lc, stk) ==
  LET st == ObjEntryStatus(depth, p, tn)
  IN  IF st = OK
        THEN /\ tokens' = [tokens EXCEPT
                             ![tn] = NewTkn(JTOK_OBJECT, p,
                                            INVALID_ARRAY_INDEX,
                                            ObjParent(sup, tn))]
             /\ toknext' = tn + 1
             /\ toksuper' = tn
             /\ pos' = p + 1
             /\ last_child' = NO_CHILD_IDX
             /\ stack' = Append(stk, Frame("obj", p, "KEY", tn, depth))
             /\ status' = OK
             /\ pc' = "run"
        ELSE /\ tokens' = tokens
             /\ toknext' = tn
             /\ toksuper' = sup
             /\ pos' = p
             /\ last_child' = lc
             /\ stack' = stk
             /\ status' = st
             /\ pc' = "ret"

\* jtok_parse: argument checks, jtok_new_parser, leading whitespace, and the
\* call of jtok_parse_object at depth 0
jtok_parse ==
  /\ pc = "idle"
  /\ IF ParseArgStatus # OK
       THEN /\ status' = ParseArgStatus
            /\ pc' = "done"
            /\ UNCHANGED <<tokens, parser, stack>>
       ELSE /\ ~NeedByte
            /\ LET p0 == MinOf({q \in 0..(Len(json) - 1) :
                                  At(q) \notin Whitespace})
               IN  ObjEntry(0, p0, 0, NO_PARENT_IDX, NO_CHILD_IDX, <<>>)
  /\ UNCHANGED Env

\* mutant: jtok_parse looks at the bytes after the root object and reports
\* INVAL when one of them is not whitespace
jtok_parse_return_strict ==
  /\ pc = "ret"
  /\ stack = <<>>
  /\ pc' = "done"
  /\ status' = IF status = OK /\ \E q \in (pos + 1)..(Len(json) - 1) :
                                  At(q) \notin Whitespace \cup {NUL}
                 THEN INVAL ELSE status
  /\ UNCHANGED <<json, cap, tokens, parser, stack, prev, script,
                 call, ret, args>>

\* jtok_parse hands the status of jtok_parse_object to its caller
jtok_parse_return ==
  /\ pc = "ret"
  /\ stack = <<>>
  /\ pc' = "done"
  /\ UNCHANGED <<json, cap, tokens, parser, stack, status, prev, script,
                 call, ret, args>>

\* mutant: the for statement does not increment pos
LoopNext_no_increment(st, p, f) ==
  /\ status' = st
  /\ pos' = p
  /\ IF st = OK
       THEN stack' = SetTop(f) /\ pc' = "run"
       ELSE stack' = Pop /\ pc' = "ret"

\* mutant: the loop goes on after a failure
LoopNext_goes_on(st, p, f) ==
  /\ status' = OK
  /\ pos' = p + 1
  /\ stack' = SetTop(f)
  /\ pc' = "run"

\* end of one pass through the loop body with status st and pos = p: the
\* for statement increments pos, then either goes on or leaves the loop and
\* returns st
LoopNext(st, p, f) ==
  /\ status' = st
  /\ pos' = p + 1
  /\ IF st = OK
       THEN stack' = SetTop(f) /\ pc' = "run"
       ELSE stack' = Pop /\ pc' = "ret"

\* a return statement inside the loop body
Return(st, p) ==
  /\ status' = st
  /\ pos' = p
  /\ stack' = Pop
  /\ pc' = "ret"

ObjAt(S) ==
  /\ InObjFrame
  /\ ~NeedByte
  /\ Revealed(pos)
  /\ At(pos) \in S

\* case '{'
Obj_LBrace ==
  /\ ObjAt({"{"})
  /\ LET f == Top
     IN  CASE f.expecting = "KEY" ->
                /\ LoopNext(OBJ_NOKEY, pos, f)
                /\ UNCHANGED <<tokens, toknext, toksuper, last_child>>
           [] f.expecting = "COLON" ->
                /\ LoopNext(VAL_NO_COLON, pos, f)
                /\ UNCHANGED <<tokens, toknext, toksuper, last_child>>
           [] f.expecting = "VALUE" ->
                ObjEntry(f.depth + 1, pos, toknext, toksuper, last_child,
                         SetTop([f EXCEPT !.calling = "object",
                                          !.key_idx = toksuper]))
           [] f.expecting = "COMMA" ->
                /\ LoopNext(INVAL, pos, f)
                /\ UNCHANGED <<tokens, toknext, toksuper, last_child>>
  /\ UNCHANGED Env

\* case '{', OBJECT_VALUE: jtok_parse_object has returned
Obj_ObjectReturned ==
  /\ pc = "ret"
  /\ stack # <<>>
  /\ Top.kind = "obj"
  /\ Top.calling = "object"
  /\ LET f == Top
         key_idx == f.key_idx
     IN  IF status = OK
           THEN /\ tokens' = BindValue(tokens, key_idx)
                /\ toksuper' = key_idx
                /\ last_child' = key_idx
                /\ LoopNext(OK, pos, [f EXCEPT !.expecting = "COMMA",
                                               !.calling = "none"])
                /\ UNCHANGED toknext
           ELSE /\ LoopNext(status, pos, f)
                /\ UNCHANGED <<tokens, toknext, toksuper, last_child>>
  /\ UNCHANGED Env

\* mutant: the closing brace is left out of the token
ObjEnd_at_brace(p) == p

\* parent_obj->end = parser->pos + 1
ObjEnd(p) == p + 1

\* mutant: the superior token is reset, not popped
ClosedSuper_reset(parent_obj) == NO_PARENT_IDX

\* parser->toksuper = parent_obj->parent
ClosedSuper(parent_obj) == parent_obj.parent

\* mutant: the states OBJECT_COLON and OBJECT_VALUE fall to default
RBraceStatus_default(e) ==
  IF e \in {"KEY", "COMMA"} THEN OK ELSE INVAL

\* the status the case '}' sets in state e, for a valid object token
RBraceStatus(e) ==
  IF e \in {"KEY", "COMMA"} THEN OK ELSE KEY_NO_VAL

\* case '}'
Obj_RBrace ==
  /\ ObjAt({"}"})
  /\ LET f == Top
         parent_obj == tokens[f.index]
     IN  CASE f.expecting = "KEY" ->
                IF parent_obj.type # JTOK_OBJECT \/ toknext = 0
                  THEN /\ Return(INVAL, f.start)
                       /\ UNCHANGED <<tokens, toknext, toksuper, last_child>>
                  ELSE /\ tokens' = [tokens EXCEPT ![f.index].end = ObjEnd(pos)]
                       /\ toksuper' = ClosedSuper(parent_obj)
                       /\ Return(OK, pos)
                       /\ UNCHANGED <<toknext, last_child>>
           [] f.expecting = "COMMA" ->
                IF parent_obj.type # JTOK_OBJECT \/ toknext = 0
                  THEN /\ Return(INVAL, f.start)
                       /\ UNCHANGED <<tokens, toknext, toksuper, last_child>>
                  ELSE /\ LET t1 == [tokens EXCEPT ![f.index].end = ObjEnd(pos)]
                          IN  tokens' =
                                IF last_child # NO_CHILD_IDX
                                  THEN [t1 EXCEPT ![last_child].sibling =
                                                    NO_SIBLING_IDX]
                                  ELSE t1
                       /\ toksuper' = ClosedSuper(parent_obj)
                       /\ last_child' = NO_CHILD_IDX
                       /\ Return(OK, pos)
                       /\ UNCHANGED toknext
           [] f.expecting \in {"COLON", "VALUE"} ->
                /\ LoopNext(RBraceStatus(f.expecting), pos, f)
                /\ UNCHANGED <<tokens, toknext, toksuper, last_child>>
  /\ UNCHANGED Env


(* --------------------------- jtok_parse_array ------------------------- *)
ArrEntryStatus(depth, p, tn) ==
  IF depth > JTOK_MAX_RECURSE_DEPTH THEN NEST_DEPTH_EXCEEDED
  ELSE IF At(p) # "[" THEN NON_ARRAY
  ELSE IF tn = cap THEN NOMEM
  ELSE OK

\* entry of jtok_parse_array up to the loop: the ARRAY token is allocated and
\* becomes toksuper
ArrEntry(depth, p, stk) ==
  LET st == ArrEntryStatus(depth, p, toknext)
  IN  IF st = OK
        THEN /\ tokens' = [tokens EXCEPT
                             ![toknext] = NewTkn(JTOK_ARRAY, p,
                                                 INVALID_ARRAY_INDEX,
                                                 toksuper)]
             /\ toknext' = toknext + 1
             /\ toksuper' = toknext
             /\ pos' = p + 1
             /\ last_child' = NO_CHILD_IDX
             /\ stack' = Append(stk, Frame("arr", p, "VALUE_OR_END",
                                           toknext, depth))
             /\ status' = OK
             /\ pc' = "run"
        ELSE /\ status' = st
             /\ stack' = stk
             /\ pc' = "ret"
             /\ UNCHANGED <<tokens, toknext, toksuper, pos, last_child>>

\* case '['
Obj_LBracket ==
  /\ ObjAt({"["})
  /\ LET f == Top
     IN  CASE f.expecting = "KEY" ->
                /\ LoopNext(OBJ_NOKEY, pos, f)
                /\ UNCHANGED <<tokens, toknext, toksuper, last_child>>
           [] f.expecting = "COLON" ->
                /\ LoopNext(VAL_NO_COLON, pos, f)
                /\ UNCHANGED <<tokens, toknext, toksuper, last_child>>
           [] f.expecting = "VALUE" ->
                ArrEntry(f.depth + 1, pos,
                         SetTop([f EXCEPT !.calling = "array",
                                          !.key_idx = toksuper]))
           [] f.expecting = "COMMA" ->
                /\ LoopNext(INVAL, pos, f)
                /\ UNCHANGED <<tokens, toknext, toksuper, last_child>>
  /\ UNCHANGED Env

\* mutant: the status of jtok_parse_array is overwritten
ArrayResult_overwritten(st, key_idx) ==
  IF key_idx # NO_PARENT_IDX THEN OK ELSE INVALID_PARENT

\* the status of the object parser after jtok_parse_array returned st for
\* the value of the key at key_idx
ArrayResult(st, key_idx) ==
  IF st = OK
    THEN IF key_idx # NO_PARENT_IDX THEN OK ELSE INVALID_PARENT
    ELSE st

\* case '[', OBJECT_VALUE: jtok_parse_array has returned
Obj_ArrayReturned ==
  /\ pc = "ret"
  /\ stack # <<>>
  /\ Top.kind = "obj"
  /\ Top.calling = "array"
  /\ LET f == Top
         key_idx == f.key_idx
     IN  IF status = OK
           THEN /\ tokens' = BindValue(tokens, key_idx)
                /\ last_child' = key_idx
                /\ LoopNext(ArrayResult(status, key_idx),
                            pos, [f EXCEPT !.expecting = "COMMA",
                                           !.calling = "none"])
                /\ UNCHANGED <<toknext, toksuper>>
           ELSE /\ LoopNext(ArrayResult(status, key_idx), pos, f)
                /\ UNCHANGED <<tokens, toknext, toksuper, last_child>>
  /\ UNCHANGED Env

\* case '"'
Obj_Quote ==
  /\ ObjAt({Quote})
  /\ LET f == Top
         r == jtok_parse_string(pos)
         new == toknext
     IN  CASE f.expecting = "KEY" ->
                IF tokens[toksuper].type = JTOK_OBJECT
                  THEN IF r.status = OK
                         THEN /\ LET t1 == [tokens EXCEPT ![new] = r.tok]
                                     t2 == LinkSibling(t1, last_child, new)
                                 IN  tokens' =
                                       [t2 EXCEPT ![toksuper].size = @ + 1]
                              /\ toknext' = toknext + 1
                              /\ last_child' = new
                              /\ LoopNext(OK, r.pos,
                                          [f EXCEPT !.expecting = "COLON"])
                              /\ UNCHANGED toksuper
                         ELSE /\ LoopNext(r.status, r.pos, f)
                              /\ UNCHANGED <<tokens, toknext, toksuper,
                                             last_child>>
                  ELSE /\ LoopNext(INVALID_PARENT, pos, f)
                       /\ UNCHANGED <<tokens, toknext, toksuper, last_child>>
           [] f.expecting = "VALUE" ->
                IF tokens[toksuper].type = JTOK_STRING
                  THEN IF tokens[toksuper].size # 0
                         THEN /\ LoopNext(KEY_MULTIPLE_VAL, pos, f)
                              /\ UNCHANGED <<tokens, toknext, toksuper,
                                             last_child>>
                       ELSE IF r.status = OK
                         THEN /\ tokens' =
                                   [tokens EXCEPT ![new] = r.tok,
                                                  ![toksuper].size = @ + 1]
                              /\ toknext' = toknext + 1
                              /\ LoopNext(OK, r.pos,
                                          [f EXCEPT !.expecting = "COMMA"])
                              /\ UNCHANGED <<toksuper, last_child>>
                       ELSE /\ LoopNext(r.status, r.pos, f)
                            /\ UNCHANGED <<tokens, toknext, toksuper,
                                           last_child>>
                  ELSE /\ LoopNext(INVALID_PARENT, pos, f)
                       /\ UNCHANGED <<tokens, toknext, toksuper, last_child>>
           [] f.expecting = "COLON" ->
                /\ LoopNext(VAL_NO_COLON, pos, f)
                /\ UNCHANGED <<tokens, toknext, toksuper, last_child>>
           [] f.expecting = "COMMA" ->
                /\ LoopNext(VAL_NO_COMMA, pos, f)
                /\ UNCHANGED <<tokens, toknext, toksuper, last_child>>
  /\ UNCHANGED Env

\* case '\t', '\r', '\n', ' ': continue
Obj_Whitespace ==
  /\ ObjAt(Whitespace)
  /\ LoopNext(OK, pos, Top)
  /\ UNCHANGED <<tokens, toknext, toksuper, last_child>>
  /\ UNCHANGED Env

\* mutant: the object stays the superior token
ColonSuper_kept(sup, tn) == sup

\* "Superior token becomes the key we just processed"
ColonSuper(sup, tn) == tn - 1

\* case ':'
Obj_Colon ==
  /\ ObjAt({":"})
  /\ LET f == Top
     IN  IF f.expecting = "COLON"
           THEN /\ toksuper' = ColonSuper(toksuper, toknext)
                /\ LoopNext(OK, pos, [f EXCEPT !.expecting = "VALUE"])
           ELSE /\ LoopNext(INVAL, f.start, f)
                /\ UNCHANGED toksuper
  /\ UNCHANGED <<tokens, toknext, last_child>>
  /\ UNCHANGED Env

\* mutant: the key stays the superior token
CommaSuper_kept(sup) == sup

\* parser->toksuper = parent_key->parent for the key at toksuper = sup
CommaSuper(sup) == tokens[sup].parent

\* case ','
Obj_Comma ==
  /\ ObjAt({","})
  /\ LET f == Top
     IN  IF f.expecting = "COMMA"
           THEN /\ toksuper' = CommaSuper(toksuper)
                /\ LoopNext(OK, pos, [f EXCEPT !.expecting = "KEY"])
           ELSE /\ LoopNext(OBJ_NOKEY, pos, f)
                /\ UNCHANGED toksuper
  /\ UNCHANGED <<tokens, toknext, last_child>>
  /\ UNCHANGED Env

\* case '+', '-', '0' .. '9', 't', 'f', 'n'
Obj_Primitive ==
  /\ ObjAt(PrimLead)
  /\ LET f == Top
         parent == tokens[toksuper]
         new == toknext
         r == jtok_parse_primitive(pos)
     IN  IF f.expecting = "VALUE"
           THEN IF parent.type = JTOK_OBJECT
                  THEN /\ LoopNext(INVAL, f.start, f)
                       /\ UNCHANGED <<tokens, toknext>>
                ELSE IF parent.type = JTOK_STRING
                  THEN IF parent.size # 0
                         THEN /\ LoopNext(INVAL, f.start, f)
                              /\ UNCHANGED <<tokens, toknext>>
                       ELSE IF r.status = OK
                         THEN /\ tokens' =
                                   BindValue([tokens EXCEPT ![new] = r.tok],
                                             toksuper)
                              /\ toknext' = toknext + 1
                              /\ LoopNext(OK, r.pos,
                                          [f EXCEPT !.expecting = "COMMA"])
                       ELSE /\ LoopNext(r.status, r.pos, f)
                            /\ UNCHANGED <<tokens, toknext>>
                ELSE /\ LoopNext(INVAL, pos, f)
                     /\ UNCHANGED <<tokens, toknext>>
           ELSE /\ LoopNext(KEY_NO_VAL, tokens[toksuper].start, f)
                /\ UNCHANGED <<tokens, toknext>>
  /\ UNCHANGED <<toksuper, last_child>>
  /\ UNCHANGED Env

ObjCases == {"{", "[", "}", Quote, ":", ","} \cup Whitespace \cup PrimLead

\* default: unexpected character
Obj_Default ==
  /\ ObjAt((Alphabet \cup StrBytes) \ ObjCases)
  /\ LoopNext(INVAL, Top.start, Top)
  /\ UNCHANGED <<tokens, toknext, toksuper, last_child>>
  /\ UNCHANGED Env

\* mutant: the status of the loop is returned as it is
EndStatus_kept(st) == st

\* the status after the loop: OK there means the '}' was not found
EndStatus(st) == IF st = OK THEN PARTIAL_TOKEN ELSE st

\* the loop condition fails on the end of the input while status is OK
Obj_EndOfInput ==
  /\ ObjAt({NUL})
  /\ Return(EndStatus(status), Top.start)
  /\ UNCHANGED <<tokens, toknext, toksuper, last_child>>
  /\ UNCHANGED Env


ArrAt(S) ==
  /\ InArrFrame
  /\ ~NeedByte
  /\ Revealed(pos)
  /\ At(pos) \in S

\* attach token new as the next element of the array of frame f: the
\* homogeneity rule, the array's size and the sibling link
Attach(t, f, new, lc) ==
  IF t[f.index].size >= 1 /\ t[new].type # t[f.index + 1].type
    THEN [status |-> MIXED_ARRAY, tokens |-> t]
    ELSE [status |-> OK,
          tokens |->
            LET t1 == [t EXCEPT ![f.index].size = @ + 1]
            IN  IF lc # NO_CHILD_IDX
                  THEN [t1 EXCEPT ![lc].sibling = new]
                  ELSE t1]

\* '[' or '{' in the array: recurse into the nested container
Arr_Container ==
  /\ ArrAt({"{", "["})
  /\ LET f == Top
         g == [f EXCEPT !.calling = "child", !.key_idx = toknext,
                        !.saved = last_child]
     IN  IF f.expecting \in {"VALUE_OR_END", "VALUE"}
           THEN IF At(pos) = "{"
                  THEN ObjEntry(f.depth + 1, pos, toknext, toksuper,
                                last_child, SetTop(g))
                  ELSE ArrEntry(f.depth + 1, pos, SetTop(g))
           ELSE /\ LoopNext(INVAL, pos, f)
                /\ UNCHANGED <<tokens, toknext, toksuper, last_child>>
  /\ UNCHANGED Env

\* the nested container of an array has been parsed
Arr_ChildReturned ==
  /\ pc = "ret"
  /\ stack # <<>>
  /\ Top.kind = "arr"
  /\ Top.calling = "child"
  /\ LET f == Top
         a == Attach(tokens, f, f.key_idx, f.saved)
     IN  IF status = OK
           THEN /\ tokens' = a.tokens
                /\ toksuper' = f.index
                /\ last_child' = f.key_idx
                /\ LoopNext(a.status, pos,
                            [f EXCEPT !.expecting = "COMMA_OR_END",
                                      !.calling = "none"])
                /\ UNCHANGED toknext
           ELSE /\ LoopNext(status, pos, f)
                /\ UNCHANGED <<tokens, toknext, toksuper, last_child>>
  /\ UNCHANGED Env

\* '"' or a primitive lead byte in the array
Arr_Scalar ==
  /\ ArrAt({Quote} \cup PrimLead)
  /\ LET f == Top
         new == toknext
         r == IF At(pos) = Quote THEN jtok_parse_string(pos)
                                 ELSE jtok_parse_primitive(pos)
         a == Attach([tokens EXCEPT ![new] = r.tok], f, new, last_child)
     IN  IF f.expecting \in {"VALUE_OR_END", "VALUE"}
           THEN IF r.status = OK
                  THEN /\ tokens' = a.tokens
                       /\ toknext' = toknext + 1
                       /\ last_child' = new
                       /\ LoopNext(a.status, r.pos,
                                   [f EXCEPT !.expecting = "COMMA_OR_END"])
                  ELSE /\ LoopNext(r.status, r.pos, f)
                       /\ UNCHANGED <<tokens, toknext, last_child>>
           ELSE /\ LoopNext(INVAL, pos, f)
                /\ UNCHANGED <<tokens, toknext, last_child>>
  /\ UNCHANGED toksuper
  /\ UNCHANGED Env

\* ',' in the array
Arr_Comma ==
  /\ ArrAt({","})
  /\ LET f == Top
     IN  IF f.expecting = "COMMA_OR_END"
           THEN LoopNext(OK, pos, [f EXCEPT !.expecting = "VALUE"])
           ELSE LoopNext(STRAY_COMMA, pos, f)
  /\ UNCHANGED <<tokens, toknext, toksuper, last_child>>
  /\ UNCHANGED Env

\* ']' in the array
Arr_RBracket ==
  /\ ArrAt({"]"})
  /\ LET f == Top
     IN  IF f.expecting = "VALUE"
           THEN /\ LoopNext(STRAY_COMMA, pos, f)
                /\ UNCHANGED <<tokens, toksuper, last_child>>
           ELSE /\ LET t1 == [tokens EXCEPT ![f.index].end = pos + 1]
                   IN  tokens' =
                         IF last_child # NO_CHILD_IDX
                           THEN [t1 EXCEPT ![last_child].sibling =
                                             NO_SIBLING_IDX]
                           ELSE t1
                /\ toksuper' = tokens[f.index].parent
                /\ last_child' = NO_CHILD_IDX
                /\ Return(OK, pos)
  /\ UNCHANGED toknext
  /\ UNCHANGED Env

\* whitespace in the array
Arr_Whitespace ==
  /\ ArrAt(Whitespace)
  /\ LoopNext(OK, pos, Top)
  /\ UNCHANGED <<tokens, toknext, toksuper, last_child>>
  /\ UNCHANGED Env

ArrCases == {"{", "[", "]", Quote, ","} \cup Whitespace \cup PrimLead

\* any other character in the array
Arr_Default ==
  /\ ArrAt((Alphabet \cup StrBytes) \ ArrCases)
  /\ LoopNext(INVAL, pos, Top)
  /\ UNCHANGED <<tokens, toknext, toksuper, last_child>>
  /\ UNCHANGED Env

\* the input ends before the closing ']'
Arr_EndOfInput ==
  /\ ArrAt({NUL})
  /\ Return(PARTIAL_TOKEN, pos)
  /\ UNCHANGED <<tokens, toknext, toksuper, last_child>>
  /\ UNCHANGED Env

(* ------------------------- helpers of jtok.c -------------------------- *)
\* the pool and input buffer a token points into (tkn->pool, tkn->json)
Cur == [json |-> json, tokens |-> tokens, n |-> toknext]
InPool(i) == i \in 0..(PoolMax - 1)

\* a NULL pointer to a token
NullTkn == [null |-> TRUE]

\* jtok_toklen: 0 for NULL, else the unsigned difference end - start, 0
\* when it does not fit
jtok_toklen(tok) ==
  IF tok = NullTkn THEN 0
  ELSE LET d == tok.end - tok.start
       IN  IF d >= 0 /\ d < UINT16_MAX THEN d ELSE 0

\* byte k of the NUL-terminated literal, and byte k of buffer J from start
LitByte(lit, k) == IF k < Len(lit) THEN lit[k + 1] ELSE NUL
BufByte(J, k) == IF k >= 0 /\ k < Len(J) THEN J[k + 1] ELSE NUL

\* strncmp(lit, &J[start], n) == 0: the bytes agree up to the first NUL of
\* either side or up to n bytes
strncmp_eq(lit, J, start, n) ==
  \A k \in 0..(n - 1) :
    (\A m \in 0..(k - 1) : /\ LitByte(lit, m) = BufByte(J, start + m)
                           /\ LitByte(lit, m) # NUL)
      => LitByte(lit, k) = BufByte(J, start + k)

\* jtok_tokcmp for a non-null literal and a token with a non-null buffer
jtok_tokcmp(lit, J, tok) ==
  LET slen == Len(lit) % (UINT16_MAX + 1)
      least_size == IF jtok_toklen(tok) < slen THEN slen
                                                ELSE jtok_toklen(tok)
  IN  strncmp_eq(lit, J, tok.start, least_size)

\* strncpy(dst, &J[start], n): the bytes of J up to its first NUL, then NUL
\* bytes, n bytes in all
strncpy(dst, J, start, n) ==
  [k \in 1..Len(dst) |->
     IF k > n THEN dst[k]
     ELSE IF \E m \in 0..(k - 1) : BufByte(J, start + m) = NUL THEN NUL
     ELSE BufByte(J, start + k - 1)]

\* mutant: the copy is NUL-terminated where there is room
jtok_tokcpy_terminated(dst, bufsize, tkn, J) ==
  IF dst.null \/ tkn = NullTkn \/ J.null
    THEN [ptr |-> "NULL", dst |-> dst]
    ELSE LET copy_count == IF jtok_toklen(tkn) > bufsize
                             THEN bufsize ELSE jtok_toklen(tkn)
             d1 == strncpy(dst.bytes, J.bytes, tkn.start, copy_count)
         IN  [ptr |-> "dst",
              dst |-> [dst EXCEPT !.bytes =
                         IF copy_count < bufsize
                           THEN [d1 EXCEPT ![copy_count + 1] = NUL]
                           ELSE d1]]

\* jtok_tokcpy(dst, bufsize, tkn) with tkn->json = J: the returned pointer
\* and the buffer afterwards
jtok_tokcpy(dst, bufsize, tkn, J) ==
  IF dst.null \/ tkn = NullTkn \/ J.null
    THEN [ptr |-> "NULL", dst |-> dst]
    ELSE LET copy_count == IF jtok_toklen(tkn) > bufsize
                             THEN bufsize ELSE jtok_toklen(tkn)
         IN  [ptr |-> "dst",
              dst |-> [dst EXCEPT !.bytes =
                         strncpy(@, J.bytes, tkn.start, copy_count)]]

\* mutant: the table has no comparator for objects
tokcmp_funcs_no_object ==
  (JTOK_PRIMITIVE :> "jtok_toktokcmp_primitive") @@
  (JTOK_OBJECT :> "NULL") @@
  (JTOK_ARRAY :> "jtok_toktokcmp_array") @@
  (JTOK_STRING :> "jtok_toktokcmp_string")

tokcmp_funcs ==
  (JTOK_PRIMITIVE :> "jtok_toktokcmp_primitive") @@
  (JTOK_OBJECT :> "jtok_toktokcmp_object") @@
  (JTOK_ARRAY :> "jtok_toktokcmp_array") @@
  (JTOK_STRING :> "jtok_toktokcmp_string")

\* jtok_toktokcmp: the table entry itself is returned, converted to bool
jtok_toktokcmp(tkn1, tkn2) ==
  IF tkn1.type = tkn2.type
    THEN tokcmp_funcs[tkn1.type] # "NULL"
    ELSE FALSE

\* isValidJson for a non-null token array
isValidJson(tkns, tcnt) ==
  IF tcnt > 1
    THEN LET v0 == tkns[0].type = JTOK_OBJECT
         IN  IF tcnt = 2
               THEN v0 \/ tkns[1].type = JTOK_ARRAY
               ELSE v0 \/ (tcnt > 2 /\ tkns[1].type = JTOK_STRING)
    ELSE FALSE

\* the indices of the token array that isValidJson(tkns, tcnt) reads
isValidJson_reads(tcnt) == IF tcnt > 1 THEN {0, 1} ELSE {}

\* the loop of jtok_obj_has_key from pass i with key_tkn at index key
RECURSIVE HasKeyLoop(_, _, _, _, _)
HasKeyLoop(P, lit, size, i, key) ==
  IF i >= size THEN INVALID_ARRAY_INDEX
  ELSE IF jtok_tokcmp(lit, P.json, P.tokens[key])
    THEN key \div sizeof_jtok_tkn_t
  ELSE IF P.tokens[key].sibling # NO_SIBLING_IDX
    THEN HasKeyLoop(P, lit, size, i + 1, P.tokens[key].sibling)
  ELSE INVALID_ARRAY_INDEX

\* jtok_obj_has_key on the token at index obj of pool P
jtok_obj_has_key(P, obj, lit) ==
  IF P.tokens[obj].type = JTOK_OBJECT /\ P.tokens[obj].size > 0
    THEN HasKeyLoop(P, lit, P.tokens[obj].size, 0, obj + 1)
    ELSE INVALID_ARRAY_INDEX

(* ------------------------ jtok_toktokcmp_object ----------------------- *)
\* the j loop for the key child1 of obj1: j and is_equal when it is left;
\* ub is set when a token outside the pool would be read
RECURSIVE CmpInner(_, _, _, _, _, _)
CmpInner(T1, child1, T2, size2, j, child2) ==
  IF j >= size2 THEN [j |-> j, is_equal |-> TRUE, ub |-> FALSE]
  ELSE IF ~InPool(child1) \/ ~InPool(child2)
    THEN [j |-> j, is_equal |-> FALSE, ub |-> TRUE]
  ELSE IF jtok_toktokcmp(T1[child1], T2[child2])
    THEN IF ~InPool(child1 + 1) \/ ~InPool(child2 + 1)
           THEN [j |-> j, is_equal |-> FALSE, ub |-> TRUE]
         ELSE IF jtok_toktokcmp(T1[child1 + 1], T2[child2 + 1])
           THEN [j |-> j, is_equal |-> TRUE, ub |-> FALSE]
         ELSE [j |-> j + 1, is_equal |-> FALSE, ub |-> FALSE]
  ELSE IF T2[child2].sibling = NO_SIBLING_IDX
    THEN [j |-> j, is_equal |-> FALSE, ub |-> FALSE]
  ELSE CmpInner(T1, child1, T2, size2, j + 1, T2[child2].sibling)

\* the i loop over the keys of obj1
RECURSIVE CmpOuter(_, _, _, _, _, _, _)
CmpOuter(T1, size1, T2, obj2, i, child1, is_equal) ==
  IF ~(i < size1 /\ is_equal)
    THEN [is_equal |-> is_equal, ub |-> FALSE]
    ELSE LET r == CmpInner(T1, child1, T2, T2[obj2].size, 0, obj2 + 1)
         IN  IF r.ub THEN [is_equal |-> FALSE, ub |-> TRUE]
             ELSE IF r.j = T2[obj2].size
               THEN CmpOuter(T1, size1, T2, obj2, i + 1, child1, FALSE)
             ELSE CmpOuter(T1, size1, T2, obj2, i + 1,
                           T1[child1].sibling, r.is_equal)

\* the assert statements of jtok_toktokcmp_object hold
toktokcmp_object_asserts(P1, obj1, P2, obj2) ==
  /\ P1.tokens[0].type = JTOK_OBJECT
  /\ obj1 # 0 => P1.tokens[0].size > 1
  /\ P2.tokens[0].type = JTOK_OBJECT
  /\ obj2 # 0 => P2.tokens[0].size > 1
  /\ (/\ P1.tokens[obj1].type = JTOK_OBJECT
      /\ P2.tokens[obj2].type = JTOK_OBJECT
      /\ P1.tokens[obj1].size = P2.tokens[obj2].size
      /\ P1.tokens[obj1].size > 0)
       => /\ InPool(obj1 + 1) /\ P1.tokens[obj1 + 1].type = JTOK_STRING
          /\ InPool(obj2 + 1) /\ P2.tokens[obj2 + 1].type = JTOK_STRING

\* jtok_toktokcmp_object(obj1, obj2) when no assertion fails
jtok_toktokcmp_object(P1, obj1, P2, obj2) ==
  LET o1 == P1.tokens[obj1]
      o2 == P2.tokens[obj2]
  IN  IF o1.type # JTOK_OBJECT \/ o2.type # JTOK_OBJECT
        THEN [is_equal |-> FALSE, ub |-> FALSE]
      ELSE IF o1.size # o2.size
        THEN [is_equal |-> FALSE, ub |-> FALSE]
      ELSE IF o1.size > 0
        THEN CmpOuter(P1.tokens, o1.size, P2.tokens, obj2, 0, obj1 + 1,
                      TRUE)
      ELSE [is_equal |-> TRUE, ub |-> FALSE]

(* --------------------------- the caller ------------------------------- *)
\* the literals a caller passes to jtok_tokcmp and jtok_obj_has_key
LitBytes == {"a", Quote}
Literals ==
  {<<>>} \cup {<<x>> : x \in LitBytes} \cup {<<"a", y>> : y \in LitBytes}

\* the direct children of the token at index c among the tokens of the parse
Children(P, c) == {k \in 0..(P.n - 1) : k # c /\ P.tokens[k].parent = c}

\* the children of c in index order
RECURSIVE SortedSeq(_)
SortedSeq(S) ==
  IF S = {} THEN <<>> ELSE <<MinOf(S)>> \o SortedSeq(S \ {MinOf(S)})

\* the token pool the caller compares the tokens of the last parse with:
\* that of the parse before it when there was one, token by token
Pools == IF prev.n > 0 THEN {prev} ELSE {Cur}

Parsed ==
  /\ pc = "done"
  /\ status = OK
  /\ prev.n > 0 => script # prev.json
  /\ call.op = "none"

Frozen ==
  <<json, cap, tokens, parser, stack, status, pc, prev, script, args>>

Call_jtok_tokcmp ==
  /\ Parsed
  /\ prev.n = 0
  /\ \E lit \in Literals, i \in 0..(toknext - 1) :
       /\ call' = [op |-> "jtok_tokcmp", lit |-> lit, b |-> i]
       /\ ret' = jtok_tokcmp(lit, json, tokens[i])
  /\ UNCHANGED Frozen

Call_jtok_obj_has_key ==
  /\ Parsed
  /\ prev.n = 0
  /\ \E lit \in Literals, i \in 0..(toknext - 1) :
       /\ tokens[i].type = JTOK_OBJECT
       /\ call' = [op |-> "jtok_obj_has_key", lit |-> lit, b |-> i]
       /\ ret' = jtok_obj_has_key(Cur, i, lit)
  /\ UNCHANGED Frozen

Call_jtok_toktokcmp ==
  /\ Parsed
  /\ \E P \in Pools, i \in 0..(PoolMax - 1), j \in 0..(toknext - 1) :
       /\ i < P.n
       /\ prev.n > 0 => i = j
       /\ call' = [op |-> "jtok_toktokcmp", P |-> P, a |-> i, b |-> j]
       /\ ret' = jtok_toktokcmp(P.tokens[i], tokens[j])
  /\ UNCHANGED Frozen

\* a call of jtok_toktokcmp_object; an out-of-pool read leaves the result
\* to the build, a failed assertion aborts the program
Call_jtok_toktokcmp_object ==
  /\ Parsed
  /\ \E P \in Pools, i \in 0..(PoolMax - 1), j \in 0..(toknext - 1) :
       /\ i < P.n
       /\ prev.n > 0 => i = j
       /\ P.tokens[i].type = JTOK_OBJECT
       /\ tokens[j].type = JTOK_OBJECT
       /\ LET r == jtok_toktokcmp_object(P, i, Cur, j)
          IN  /\ call' = [op |-> "jtok_toktokcmp_object", P |-> P,
                          a |-> i, b |-> j,
                          asserts |->
                            toktokcmp_object_asserts(P, i, Cur, j)]
              /\ IF r.ub THEN ret' \in BOOLEAN ELSE ret' = r.is_equal
  /\ UNCHANGED Frozen

\* tokens of a length at the limit of jtok_toklen, as a parse of a long
\* input gives them
LongTkns ==
  {NewTkn(JTOK_STRING, st, st + d, 1) :
     st \in {1}, d \in {UINT16_MAX - 1, UINT16_MAX, UINT16_MAX + 1}}

Call_jtok_toklen ==
  /\ Parsed
  /\ prev.n = 0
  /\ \E tok \in {tokens[i] : i \in 0..(toknext - 1)} \cup LongTkns
                  \cup {NullTkn} :
       /\ call' = [op |-> "jtok_toklen", tok |-> tok]
       /\ ret' = jtok_toklen(tok)
  /\ UNCHANGED Frozen

\* the caller's destination buffer, DstLen bytes that are not input bytes
Dst == [null |-> FALSE, bytes |-> [k \in 1..DstLen |-> "#"]]
NullDst == [null |-> TRUE, bytes |-> <<>>]

\* a call of jtok_tokcpy with a buffer and a size within it and a token of
\* the parse, or with one of its pointers NULL: dst, tkn, or the json of a
\* slot of the zeroed pool that no parse has filled
Call_jtok_tokcpy ==
  /\ Parsed
  /\ prev.n = 0
  /\ \E i \in 0..(PoolMax - 1), bufsize \in 0..DstLen,
        d \in {Dst, NullDst}, t \in BOOLEAN :
       /\ i <= toknext
       /\ (d.null \/ ~t \/ i = toknext) => bufsize = DstLen
       /\ ~t => i = 0
       /\ LET tkn == IF t THEN tokens[i] ELSE NullTkn
              J == [null |-> i >= toknext, bytes |-> json]
          IN  /\ call' = [op |-> "jtok_tokcpy", dst |-> d,
                          bufsize |-> bufsize, tkn |-> tkn, J |-> J]
              /\ ret' = jtok_tokcpy(d, bufsize, tkn, J)
  /\ UNCHANGED Frozen

\* a call of isValidJson; json_parse calls it with JSON_TKN_CNT after every
\* successful jtok_parse
Call_isValidJson ==
  /\ Parsed
  /\ \E n \in 0..JSON_TKN_CNT :
       /\ prev.n > 0 => (prev.how = "emptied" /\ n = JSON_TKN_CNT)
       /\ call' = [op |-> "isValidJson", n |-> n,
                   reads |-> isValidJson_reads(n)]
       /\ ret' = isValidJson(tokens, n)
  /\ UNCHANGED Frozen

\* the input with a blank after every ':' and ',' between its tokens
RECURSIVE Respaced(_, _, _)
Respaced(J, k, instr) ==
  IF k > Len(J) THEN <<>>
  ELSE LET b == J[k]
           ins == IF b = Quote THEN ~instr ELSE instr
       IN  (IF ~instr /\ b \in {":", ","} THEN <<b, " ">> ELSE <<b>>)
             \o Respaced(J, k + 1, ins)

\* the opening quotes of the empty strings of J
EmptyStrings(J) ==
  {k \in 1..(Len(J) - 1) :
     /\ J[k] = Quote /\ J[k + 1] = Quote
     /\ Cardinality({m \in 1..(k - 1) : J[m] = Quote}) % 2 = 0}

\* the input with its first empty string given the payload a
Renamed(J) ==
  IF EmptyStrings(J) = {} THEN J
  ELSE LET k == MinOf(EmptyStrings(J))
       IN  SubSeq(J, 1, k) \o <<"a">> \o SubSeq(J, k + 1, Len(J))

\* the bytes of the key at index k of the pool and of its value
PairText(k) ==
  LET v == tokens[k + 1]
  IN  SubSeq(json, tokens[k].start,
             IF v.type = JTOK_STRING THEN v.end + 1 ELSE v.end)

RECURSIVE JoinPairs(_)
JoinPairs(ks) ==
  IF ks = <<>> THEN <<>>
  ELSE IF Len(ks) = 1 THEN PairText(ks[1])
  ELSE PairText(ks[1]) \o <<",">> \o JoinPairs(Tail(ks))

\* the input with the key/value pairs of its root in the opposite order
Reordered ==
  LET ks == SortedSeq(Children(Cur, 0))
      n == Len(ks)
  IN  <<"{">> \o JoinPairs([i \in 1..n |-> ks[n + 1 - i]]) \o <<"}">>

\* the input with its last PRIMITIVE replaced by an empty string
Retyped ==
  LET ps == {i \in 0..(toknext - 1) : tokens[i].type = JTOK_PRIMITIVE}
  IN  IF ps = {} THEN json
      ELSE LET i == CHOOSE x \in ps : \A y \in ps : y <= x
           IN  SubSeq(json, 1, tokens[i].start) \o <<Quote, Quote>> \o
               SubSeq(json, tokens[i].end + 1, Len(json))

\* the inputs a caller parses next
Hows == {"same", "respaced", "reordered", "renamed", "retyped", "emptied"}
Second(how) ==
  CASE how = "same" -> json
    [] how = "respaced" -> Respaced(json, 1, FALSE)
    [] how = "reordered" -> Reordered
    [] how = "renamed" -> Renamed(json)
    [] how = "retyped" -> Retyped
    [] how = "emptied" -> <<"{", "}">>

\* the caller parses another input into the same token array: the bytes of
\* the last input again with a capacity c, or the same object written in
\* another way, or the object with one string renamed or one value of
\* another type, or the empty object; a says which pointers are NULL
Reparse(c, how, a) ==
  /\ Parsed
  /\ prev.n = 0
  /\ c \in 1..PoolMax
  /\ how # "same" => (c = cap /\ Second(how) # json)
  /\ a \in Args
  /\ how = "same" => a = NoNull
  /\ args' = a
  /\ prev' = [json |-> json, tokens |-> tokens, n |-> toknext, how |-> how]
  /\ script' = Second(how)
  /\ cap' = c
  /\ json' = Second(how)
  /\ pc' = "idle"
  /\ UNCHANGED <<tokens, parser, stack, status, call, ret>>

(* ------------------------------ the run ------------------------------- *)
Next ==
  \/ \E b \in Alphabet \cup StrBytes \cup {NUL} : Feed(b)
  \/ jtok_parse
  \/ jtok_parse_return
  \/ Obj_LBrace
  \/ Obj_ObjectReturned
  \/ Obj_LBracket
  \/ Obj_ArrayReturned
  \/ Obj_RBrace
  \/ Obj_Quote
  \/ Obj_Whitespace
  \/ Obj_Colon
  \/ Obj_Comma
  \/ Obj_Primitive
  \/ Obj_Default
  \/ Obj_EndOfInput
  \/ Arr_Container
  \/ Arr_ChildReturned
  \/ Arr_Scalar
  \/ Arr_Comma
  \/ Arr_RBracket
  \/ Arr_Whitespace
  \/ Arr_Default
  \/ Arr_EndOfInput
  \/ Call_jtok_tokcmp
  \/ Call_jtok_obj_has_key
  \/ Call_jtok_toktokcmp
  \/ Call_jtok_toktokcmp_object
  \/ Call_isValidJson
  \/ Call_jtok_toklen
  \/ Call_jtok_tokcpy
  \/ \E c \in 1..PoolMax, how \in Hows, a \in Args : Reparse(c, how, a)

Spec == Init /\ [][Next]_vars

\* one call of jtok_parse on its own: the bytes of the input and the steps of
\* the parser up to its return
ParseNext ==
  \/ \E b \in Alphabet \cup StrBytes \cup {NUL} : Feed(b)
  \/ jtok_parse
  \/ jtok_parse_return
  \/ Obj_LBrace
  \/ Obj_ObjectReturned
  \/ Obj_LBracket
  \/ Obj_ArrayReturned
  \/ Obj_RBrace
  \/ Obj_Quote
  \/ Obj_Whitespace
  \/ Obj_Colon
  \/ Obj_Comma
  \/ Obj_Primitive
  \/ Obj_Default
  \/ Obj_EndOfInput
  \/ Arr_Container
  \/ Arr_ChildReturned
  \/ Arr_Scalar
  \/ Arr_Comma
  \/ Arr_RBracket
  \/ Arr_Whitespace
  \/ Arr_Default
  \/ Arr_EndOfInput

\* the call runs to its end: a C function that can take a step takes it, and
\* the input buffer has a byte wherever the parser reads
ParseSpec == Init /\ [][ParseNext]_vars /\ WF_vars(ParseNext)


(* ------------------------- trailing bytes ----------------------------- *)
\* the bytes a caller leaves in the buffer after the root object
TrailBytes == {"}", "a"}
Trails == UNION {[1..n -> TrailBytes] : n \in 1..MaxTrail}

\* parser.json_len = strlen(json_str) for the buffer s: the bytes before the
\* first NUL, the terminator following s when s holds none
json_len(s) ==
  IF \E k \in 1..Len(s) : s[k] = NUL
    THEN MinOf({k \in 1..Len(s) : s[k] = NUL}) - 1
    ELSE Len(s)

\* the offsets of the buffer s that jtok_new_parser reads: strlen compares
\* every byte up to the terminator with NUL
jtok_new_parser_reads(s) == 0..json_len(s)

\* the caller parses the bytes of the last input again, up to the root's
\* closing brace, with the bytes t behind them
ParseTrailed(t) ==
  /\ Parsed
  /\ prev.n = 0
  /\ t \in Trails
  /\ prev' = [json |-> json, tokens |-> tokens, n |-> toknext,
              how |-> "trailed"]
  /\ script' = json \o t
  /\ json' = json \o t
  /\ pc' = "idle"
  /\ UNCHANGED <<cap, tokens, parser, stack, status, call, ret, args>>

TrailNext ==
  \/ ParseNext
  \/ \E t \in Trails : ParseTrailed(t)

\* a call of jtok_parse, and after a successful one a second call on the
\* same object followed by trailing bytes
TrailSpec == Init /\ [][TrailNext]_vars


(* ========================= properties ================================= *)
ParsedOK == pc = "done" /\ status = OK

\* the raw bytes input[start..end) of the token at index i of pool P
Payload(P, i) == SubSeq(P.json, P.tokens[i].start + 1, P.tokens[i].end)


\* a ',' that is followed, after optional whitespace, by '}'
HasTrailingComma(J) ==
  \E i \in 1..Len(J), k \in 1..Len(J) :
    /\ i < k
    /\ J[i] = ","
    /\ J[k] = "}"
    /\ \A m \in (i + 1)..(k - 1) : J[m] \in Whitespace

\* C1: an input in which a ',' inside an object is followed (after optional
\* whitespace) by '}' is never parsed with status OK
C1_TrailingCommaRejected ==
  ParsedOK => ~HasTrailingComma(json)

\* C2: for a needle equal to the payload of one of the object's keys,
\* jtok_obj_has_key returns the index of the first such key
C2_HasKeyReturnsIndex ==
  call.op = "jtok_obj_has_key" =>
    LET K == {k \in Children(Cur, call.b) : Payload(Cur, k) = call.lit}
    IN  K # {} => ret = MinOf(K)

\* C3: jtok_tokcmp(literal, tok) is true exactly when the literal is
\* byte-equal to the token's payload
C3_TokcmpStrictEquality ==
  call.op = "jtok_tokcmp" => (ret <=> call.lit = Payload(Cur, call.b))

\* C4: for two PRIMITIVE or two STRING tokens jtok_toktokcmp is true exactly
\* when the payloads are byte-equal; for tokens of different types it is false
C4_ToktokcmpScalars ==
  call.op = "jtok_toktokcmp" =>
    LET ta == call.P.tokens[call.a].type
        tb == tokens[call.b].type
    IN  /\ (ta = tb /\ ta \in {JTOK_PRIMITIVE, JTOK_STRING})
             => (ret <=> Payload(call.P, call.a) = Payload(Cur, call.b))
        /\ ta # tb => ~ret


\* structural equality of two tokens as the contract defines it
RECURSIVE StructEq(_, _, _, _)
StructEq(P1, i, P2, j) ==
  LET a == P1.tokens[i]
      b == P2.tokens[j]
  IN  /\ a.type = b.type
      /\ CASE a.type \in {JTOK_PRIMITIVE, JTOK_STRING} ->
                Payload(P1, i) = Payload(P2, j)
           [] a.type = JTOK_ARRAY ->
                LET s1 == SortedSeq(Children(P1, i))
                    s2 == SortedSeq(Children(P2, j))
                IN  /\ a.size = b.size
                    /\ Len(s1) = Len(s2)
                    /\ \A k \in 1..Len(s1) : StructEq(P1, s1[k], P2, s2[k])
           [] a.type = JTOK_OBJECT ->
                /\ a.size = b.size
                /\ \A k1 \in Children(P1, i) :
                     \E k2 \in Children(P2, j) :
                       /\ Payload(P1, k1) = Payload(P2, k2)
                       /\ StructEq(P1, k1 + 1, P2, k2 + 1)
           [] OTHER -> FALSE

\* C5: jtok_toktokcmp_object on two OBJECT tokens is true exactly when the
\* sizes are equal and every key-value pair of the first has a pair of the
\* second with a byte-equal key and a structurally equal value
C5_ObjectStructuralEquality ==
  (call.op = "jtok_toktokcmp_object" /\ call.asserts) =>
    (ret <=> StructEq(call.P, call.a, Cur, call.b))

\* C6: isValidJson is true exactly when count >= 2, tokens[0] is an OBJECT
\* and tokens[1] is an ARRAY (count = 2) or a STRING (count > 2)
C6_IsValidJson ==
  call.op = "isValidJson" =>
    (ret <=> /\ call.n >= 2
             /\ tokens[0].type = JTOK_OBJECT
             /\ \/ call.n = 2 /\ tokens[1].type = JTOK_ARRAY
                \/ call.n > 2 /\ tokens[1].type = JTOK_STRING)


\* the parse that has ended took the bytes of the parse before it
Replayed == prev.n > 0 /\ script = prev.json

\* C7: an input that parses into N tokens is parsed OK, into the same N
\* tokens, with every capacity >= N and gives NOMEM with every capacity
\* 1 <= c < N; NOMEM is returned only with toknext = capacity, and toknext
\* never exceeds the capacity
C7_CapacityExact ==
  /\ pc # "idle" => toknext <= cap
  /\ (pc \in {"ret", "done"} /\ status = NOMEM /\ cap >= 1) => toknext = cap
  /\ (pc = "done" /\ Replayed) =>
       IF cap >= prev.n
         THEN status = OK /\ toknext = prev.n /\ json = script
         ELSE status = NOMEM

\* the input of C7's case: three or more tokens, parsed again with one slot
\* too few
C7_Witness ==
  /\ pc = "done"
  /\ Replayed
  /\ prev.n >= 3
  /\ cap = prev.n - 1
  /\ status = NOMEM

\* the handler of the byte at pos calls jtok_parse_object or jtok_parse_array
EntersContainer ==
  /\ pc = "run"
  /\ ~NeedByte
  /\ Revealed(pos)
  /\ At(pos) \in {"{", "["}
  /\ Top.expecting \in {"VALUE", "VALUE_OR_END"}

\* C8: the root is parsed at depth 0 and a nested container one deeper than
\* its parent; entering a container deeper than JTOK_MAX_RECURSE_DEPTH gives
\* NEST_DEPTH_EXCEEDED without allocating or writing a token, that status is
\* what jtok_parse returns, and at most JTOK_MAX_RECURSE_DEPTH + 1 frames are
\* ever active
C8_NestDepth ==
  /\ [](/\ Len(stack) <= JTOK_MAX_RECURSE_DEPTH + 1
        /\ \A k \in 1..Len(stack) : stack[k].depth = k - 1)
  /\ [][EntersContainer =>
          IF Top.depth + 1 > JTOK_MAX_RECURSE_DEPTH
            THEN /\ status' = NEST_DEPTH_EXCEEDED
                 /\ toknext' = toknext
                 /\ tokens' = tokens
                 /\ Len(stack') = Len(stack)
            ELSE /\ status' # NEST_DEPTH_EXCEEDED
                 /\ status' = OK => Len(stack') = Len(stack) + 1]_vars
  /\ [][(status = NEST_DEPTH_EXCEEDED /\ pc = "ret")
          => (status' = NEST_DEPTH_EXCEEDED /\ tokens' = tokens)]_vars

\* jtok_parse has returned NEST_DEPTH_EXCEEDED
C8_Witness ==
  /\ pc = "done"
  /\ status = NEST_DEPTH_EXCEEDED
  /\ toknext = 2 * (JTOK_MAX_RECURSE_DEPTH + 1)

\* C9: after a successful parse every direct child of every OBJECT token is
\* a STRING token of size 1
C9_ObjectChildren ==
  ParsedOK =>
    \A i \in 0..(toknext - 1) :
      tokens[i].type = JTOK_OBJECT =>
        \A k \in Children(Cur, i) :
          tokens[k].type = JTOK_STRING /\ tokens[k].size = 1

\* a successful parse with a nested object that has a key, and with a key
\* whose value is a container
C9_Witness ==
  /\ ParsedOK
  /\ \E i \in 1..(toknext - 1) :
       tokens[i].type = JTOK_OBJECT /\ Children(Cur, i) # {}

\* the tokens reached from k along sibling, at most fuel of them
RECURSIVE ChainSeq(_, _, _)
ChainSeq(T, k, fuel) ==
  IF fuel = 0 \/ ~InPool(k) THEN <<>>
  ELSE <<k>> \o ChainSeq(T, T[k].sibling, fuel - 1)

\* C10: after a successful parse the sibling chain from the first child of
\* every container ends in NO_SIBLING, has no cycle, and visits exactly size
\* tokens, which are the direct children of the container
C10_SiblingChains ==
  ParsedOK =>
    \A c \in 0..(toknext - 1) :
      tokens[c].type \in {JTOK_OBJECT, JTOK_ARRAY} =>
        IF tokens[c].size = 0
          THEN Children(Cur, c) = {}
          ELSE LET ch == ChainSeq(tokens, c + 1, PoolMax + 1)
               IN  /\ Len(ch) = tokens[c].size
                   /\ \A x, y \in 1..Len(ch) : ch[x] = ch[y] => x = y
                   /\ tokens[ch[Len(ch)]].sibling = NO_SIBLING_IDX
                   /\ {ch[x] : x \in 1..Len(ch)} = Children(Cur, c)

\* a successful parse of an object with two keys, the first of which has a
\* container as its value
C10_Witness ==
  /\ ParsedOK
  /\ \E c \in 0..(toknext - 1) :
       /\ tokens[c].type = JTOK_OBJECT
       /\ tokens[c].size >= 2
       /\ tokens[c + 2].type \in {JTOK_OBJECT, JTOK_ARRAY}

(* ------------------------- C11..C20 ----------------------------------- *)
\* the token array as it was when jtok_parse was called
TokensAtCall ==
  IF prev.n > 0 THEN prev.tokens ELSE [i \in 0..(PoolMax - 1) |-> ZeroTkn]

\* the first byte of the input after its leading whitespace
LeadBytes == {json[q] : q \in {r \in 1..Len(json) :
                 /\ json[r] \notin Whitespace
                 /\ \A m \in 1..(r - 1) : json[m] \in Whitespace}}

\* C11 as stated: after a successful parse every token but the root has a
\* parent of smaller index that starts before it and ends at or after it
C11_ParentEncloses ==
  ParsedOK =>
    \A t \in 1..(toknext - 1) :
      /\ tokens[t].parent \in 0..(t - 1)
      /\ tokens[tokens[t].parent].start < tokens[t].start
      /\ tokens[tokens[t].parent].end >= tokens[t].end

\* C11 amended: the parent has a smaller index and starts before the token;
\* a parent that is an OBJECT or an ARRAY ends at or after it, a parent
\* that is a key STRING ends before the token starts
C11_ParentOrdered ==
  ParsedOK =>
    \A t \in 1..(toknext - 1) :
      /\ tokens[t].parent \in 0..(t - 1)
      /\ LET par == tokens[tokens[t].parent]
         IN  /\ par.start < tokens[t].start
             /\ par.type \in {JTOK_OBJECT, JTOK_ARRAY}
                  => par.end >= tokens[t].end
             /\ par.type = JTOK_STRING => par.end < tokens[t].start
             /\ par.type # JTOK_PRIMITIVE

C11_Witness ==
  /\ ParsedOK
  /\ \E t \in 1..(toknext - 1) :
       /\ tokens[t].type = JTOK_OBJECT
       /\ tokens[t].parent \in 0..(t - 1)
       /\ tokens[tokens[t].parent].type = JTOK_STRING
       /\ tokens[t].end > tokens[tokens[t].parent].end

\* C12: after a successful parse the first child of a non-empty container at
\* index i is the token i + 1, and the one value of a key STRING at index k
\* is the token k + 1, whose parent is k
C12_FirstChildNext ==
  ParsedOK =>
    \A i \in 0..(toknext - 1) :
      /\ (tokens[i].type \in {JTOK_OBJECT, JTOK_ARRAY} /\ tokens[i].size > 0)
           => /\ i + 1 < toknext
              /\ tokens[i + 1].parent = i
              /\ \A c \in Children(Cur, i) : c >= i + 1
      /\ (tokens[i].type = JTOK_STRING /\ i > 0
            /\ tokens[tokens[i].parent].type = JTOK_OBJECT)
           => /\ tokens[i].size = 1
              /\ i + 1 < toknext
              /\ tokens[i + 1].parent = i
              /\ Children(Cur, i) = {i + 1}

C12_Witness ==
  /\ ParsedOK
  /\ \E i \in 1..(toknext - 1) :
       /\ tokens[i].type = JTOK_OBJECT /\ tokens[i].size > 0
       /\ tokens[i + 1].type = JTOK_STRING
       /\ tokens[i + 1].parent = i
       /\ tokens[i + 2].parent = i + 1

\* the length of the input as far as the parser has looked
InputLen == IF Ended THEN Len(json) - 1 ELSE Len(json)

\* C13 as stated: after a successful parse of a well-formed input every
\* token has 0 <= start < end <= len(input), and an OBJECT token starts at
\* its '{' and ends after its '}'
C13_TokenRanges ==
  (ParsedOK /\ ~HasTrailingComma(json)) =>
    \A i \in 0..(toknext - 1) :
      /\ 0 <= tokens[i].start
      /\ tokens[i].start < tokens[i].end
      /\ tokens[i].end <= InputLen
      /\ tokens[i].type = JTOK_OBJECT
           => /\ json[tokens[i].start + 1] = "{"
              /\ json[tokens[i].end] = "}"

\* C13 amended: 0 <= start <= end <= len(input); start < end for every
\* OBJECT, ARRAY and PRIMITIVE and for every STRING with a payload,
\* start = end for the empty STRING; the OBJECT token spans its braces
C13_TokenRangesNonStrict ==
  ParsedOK =>
    \A i \in 0..(toknext - 1) :
      /\ 0 <= tokens[i].start
      /\ tokens[i].start <= tokens[i].end
      /\ tokens[i].end <= InputLen
      /\ tokens[i].type # JTOK_STRING => tokens[i].start < tokens[i].end
      /\ tokens[i].type = JTOK_STRING
           => /\ json[tokens[i].start] = Quote
              /\ json[tokens[i].end + 1] = Quote
              /\ \A q \in (tokens[i].start + 1)..tokens[i].end :
                   json[q] # Quote
      /\ tokens[i].type = JTOK_OBJECT
           => /\ json[tokens[i].start + 1] = "{"
              /\ json[tokens[i].end] = "}"

C13_Witness ==
  /\ ParsedOK
  /\ \E i \in 1..(toknext - 1), k \in 1..(toknext - 1) :
       /\ tokens[i].type = JTOK_OBJECT
       /\ tokens[i].end > tokens[i].start + 1
       /\ tokens[k].type = JTOK_STRING
       /\ tokens[k].start = tokens[k].end

\* C14: the roots of an object and of the same object written with other
\* whitespace or another key order, parsed into two pools, are equal for
\* jtok_toktokcmp
C14_SameObjectEqual ==
  (/\ call.op = "jtok_toktokcmp"
   /\ prev.how \in {"respaced", "reordered"}
   /\ call.a = 0 /\ call.b = 0)
    => ret = TRUE

C14_Witness ==
  /\ call.op = "jtok_toktokcmp"
  /\ prev.how = "reordered"
  /\ tokens[0].size = 2
  /\ Payload(Cur, 1) # Payload(prev, 1)
  /\ call.a = 0 /\ call.b = 0
  /\ ret = TRUE

\* C15: jtok_toktokcmp and jtok_toktokcmp_object give the same answer with
\* their two arguments exchanged
C15_Symmetric ==
  /\ call.op = "jtok_toktokcmp"
       => ret = jtok_toktokcmp(tokens[call.b], call.P.tokens[call.a])
  /\ (call.op = "jtok_toktokcmp_object" /\ call.asserts
        /\ toktokcmp_object_asserts(Cur, call.b, call.P, call.a))
       => LET r1 == jtok_toktokcmp_object(call.P, call.a, Cur, call.b)
              r2 == jtok_toktokcmp_object(Cur, call.b, call.P, call.a)
          IN  (~r1.ub /\ ~r2.ub) => ret = r2.is_equal

\* C16: jtok_parse gives NULL_PARAM for a null input or token array, else
\* NOMEM for a capacity below 1, else NON_OBJECT for a first byte after the
\* leading whitespace that is not '{'; the token array is as it was
C16_ArgumentChecks ==
  pc = "done" =>
    IF args.json_null \/ args.tkns_null
      THEN status = NULL_PARAM /\ tokens = TokensAtCall
    ELSE IF cap < 1
      THEN status = NOMEM /\ tokens = TokensAtCall
    ELSE (LeadBytes # {"{"}) =>
           /\ status = NON_OBJECT
           /\ toknext = 0
           /\ tokens = TokensAtCall

C16_Witness ==
  /\ pc = "done"
  /\ args.json_null
  /\ cap < 1
  /\ status = NULL_PARAM

\* C17: jtok_obj_has_key gives INVALID_ARRAY_INDEX for an object of size 0
\* and for a needle that no key of the object is byte-equal to; any other
\* result is the index of a direct key of the object
C17_HasKeyMisses ==
  call.op = "jtok_obj_has_key" =>
    /\ tokens[call.b].size = 0 => ret = INVALID_ARRAY_INDEX
    /\ (\A k \in Children(Cur, call.b) : Payload(Cur, k) # call.lit)
         => ret = INVALID_ARRAY_INDEX
    /\ ret # INVALID_ARRAY_INDEX => ret \in Children(Cur, call.b)

\* the ARRAY tokens of the parse with two direct children of different types
MixedArrays ==
  {a \in 0..(toknext - 1) :
     /\ tokens[a].type = JTOK_ARRAY
     /\ \E c1 \in Children(Cur, a), c2 \in Children(Cur, a) :
          tokens[c1].type # tokens[c2].type}

\* C18: once an element of another type than the first is attached to an
\* array the parse has the status MIXED_ARRAY, up to the return of
\* jtok_parse; after a successful parse the children of every ARRAY share
\* one type
C18_HomogeneousArrays ==
  (pc # "idle" /\ MixedArrays # {}) => status = MIXED_ARRAY

C18_Witness ==
  /\ pc = "done"
  /\ status = MIXED_ARRAY
  /\ MixedArrays # {}
  /\ \E a \in MixedArrays : tokens[a].size >= 1

\* C19: jtok_toklen is 0 for a NULL token, end - start below the 16-bit
\* limit and the limit itself from there on
C19_ToklenClamped ==
  call.op = "jtok_toklen" =>
    IF call.tok = NullTkn THEN ret = 0
    ELSE LET d == call.tok.end - call.tok.start
         IN  ret = IF d < UINT16_MAX THEN d ELSE UINT16_MAX

\* the bytes jtok_tokcpy may write: min(toklen(tok), cap)
CopyCount ==
  IF jtok_toklen(call.tkn) > call.bufsize THEN call.bufsize
  ELSE jtok_toklen(call.tkn)

\* C20: jtok_tokcpy with a NULL dst, token or input returns NULL and writes
\* nothing; otherwise it returns dst, the first min(toklen(tok), cap) bytes
\* of dst are the input bytes from tok.start on and the other bytes of dst
\* are as they were
C20_TokcpyFrame ==
  call.op = "jtok_tokcpy" =>
    IF call.dst.null \/ call.tkn = NullTkn \/ call.J.null
      THEN ret.ptr = "NULL" /\ ret.dst = call.dst
      ELSE /\ ret.ptr = "dst"
           /\ Len(ret.dst.bytes) = Len(call.dst.bytes)
           /\ \A k \in 1..Len(ret.dst.bytes) :
                IF k <= CopyCount
                  THEN ret.dst.bytes[k] = json[call.tkn.start + k]
                  ELSE ret.dst.bytes[k] = call.dst.bytes[k]

C20_Witness ==
  /\ call.op = "jtok_tokcpy"
  /\ ~call.dst.null /\ call.tkn # NullTkn /\ ~call.J.null
  /\ jtok_toklen(call.tkn) = 1
  /\ call.bufsize = DstLen
  /\ ret.ptr = "dst"
  /\ ret.dst.bytes[1] = "a"
  /\ ret.dst.bytes[DstLen] = "#"

(* ------------------------- C21..C30 ----------------------------------- *)
\* C21: after any sequence of parses into the same token array every slot in
\* toknext..capacity - 1 is in the UNASSIGNED state, and the isValidJson that
\* json_parse calls reads no token at an index >= toknext of the last parse
C21_NoTokenBeyondToknext ==
  /\ ParsedOK =>
       \A i \in toknext..(cap - 1) : tokens[i].type = JTOK_UNASSIGNED_TOKEN
  /\ (call.op = "isValidJson" /\ call.n = JSON_TKN_CNT) =>
       \A i \in call.reads : i < toknext

\* the object parser at the head of its loop in state e, on a byte of S
ObjMeets(e, S) == ObjAt(S) /\ Top.expecting = e

\* C22: every byte other than '"', whitespace and '}' that the object parser
\* meets where it expects a key gives the status OBJ_NOKEY
C22_NonStringKey ==
  [][ObjMeets("KEY", Alphabet \ ({Quote, "}"} \cup Whitespace))
       => status' = OBJ_NOKEY]_vars

\* C23: a '}' that the object parser meets where it expects a colon or a
\* value gives KEY_NO_VAL, which is what jtok_parse returns, and the OBJECT
\* token stays unclosed, its end INVALID
C23_KeyNoVal ==
  /\ [][ObjMeets("COLON", {"}"}) \/ ObjMeets("VALUE", {"}"})
          => /\ status' = KEY_NO_VAL
             /\ pc' = "ret"
             /\ tokens' = tokens
             /\ tokens[Top.index].type = JTOK_OBJECT
             /\ tokens[Top.index].end = INVALID_ARRAY_INDEX]_vars
  /\ [][(pc = "ret" /\ status = KEY_NO_VAL)
          => (status' = KEY_NO_VAL /\ tokens' = tokens)]_vars

\* jtok_parse has returned KEY_NO_VAL for a nested object that ends after
\* the colon of its key
C23_Witness ==
  /\ pc = "done"
  /\ status = KEY_NO_VAL
  /\ Len(json) >= 2
  /\ json[Len(json)] = "}"
  /\ json[Len(json) - 1] = ":"
  /\ \E i \in 1..(toknext - 1) :
       /\ tokens[i].type = JTOK_OBJECT
       /\ tokens[i].end = INVALID_ARRAY_INDEX

\* C24: a ',' that the object parser meets in another state than
\* EXPECT_COMMA gives OBJ_NOKEY, which is what jtok_parse returns; a ',' in
\* EXPECT_COMMA moves to EXPECT_KEY and sets toksuper from the key to its
\* parent, the enclosing OBJECT
C24_Comma ==
  /\ [][(\E e \in {"KEY", "COLON", "VALUE"} : ObjMeets(e, {","}))
          => /\ status' = OBJ_NOKEY
             /\ pc' = "ret"
             /\ tokens' = tokens]_vars
  /\ [][(pc = "ret" /\ status = OBJ_NOKEY) => status' = OBJ_NOKEY]_vars
  /\ [][ObjMeets("COMMA", {","})
          => /\ tokens[toksuper].type = JTOK_STRING
             /\ tokens[toksuper].parent = Top.index
             /\ tokens[Top.index].type = JTOK_OBJECT
             /\ toksuper' = Top.index
             /\ status' = OK
             /\ pc' = "run"
             /\ pos' = pos + 1
             /\ stack'[Len(stack')].expecting = "KEY"
             /\ tokens' = tokens]_vars

\* the ',' after the first pair of a nested object has been consumed
C24_Witness ==
  /\ pc = "run"
  /\ Len(stack) = 2
  /\ Top.kind = "obj"
  /\ Top.expecting = "KEY"
  /\ tokens[Top.index].size >= 1
  /\ toksuper = Top.index
  /\ json[pos] = ","

\* C25: when the input ends where the object parser looks for its next
\* byte, in whichever state, the status is PARTIAL_TOKEN and that is what
\* jtok_parse returns; a parse that has read the end of the input never
\* returns OK, and after OK the root is closed by its '}'
C25_EndOfInput ==
  /\ [][ObjAt({NUL})
          => /\ status' = PARTIAL_TOKEN
             /\ pc' = "ret"
             /\ tokens' = tokens
             /\ tokens[Top.index].end = INVALID_ARRAY_INDEX]_vars
  /\ [][(pc = "ret" /\ status = PARTIAL_TOKEN)
          => status' = PARTIAL_TOKEN]_vars
  /\ [](ParsedOK => /\ ~Ended
                    /\ tokens[0].end # INVALID_ARRAY_INDEX
                    /\ json[tokens[0].end] = "}")

\* the input ended inside a nested object after a complete pair
C25_Witness ==
  /\ pc = "done"
  /\ status = PARTIAL_TOKEN
  /\ Ended
  /\ Len(json) >= 2
  /\ json[Len(json) - 1] = Quote
  /\ toknext >= 5
  /\ tokens[2].type = JTOK_OBJECT
  /\ tokens[2].size = 1
  /\ tokens[3].size = 1
  /\ tokens[2].end = INVALID_ARRAY_INDEX

\* C26: a status other than OK that jtok_parse_string or
\* jtok_parse_primitive gives to the object parser, or that a nested
\* jtok_parse_object or jtok_parse_array has returned, is returned by every
\* enclosing frame and by jtok_parse as it is; no byte is read and no token
\* is written on the way
C26_NoRecovery ==
  /\ [][(ObjAt({Quote}) /\ CallsString
           /\ jtok_parse_string(pos).status # OK)
          => /\ status' = jtok_parse_string(pos).status
             /\ pc' = "ret"
             /\ tokens' = tokens]_vars
  /\ [][(ObjAt(PrimLead) /\ CallsPrimitive
           /\ jtok_parse_primitive(pos).status # OK)
          => /\ status' = jtok_parse_primitive(pos).status
             /\ pc' = "ret"
             /\ tokens' = tokens]_vars
  /\ [][(pc = "ret" /\ status # OK)
          => /\ status' = status
             /\ json' = json
             /\ tokens' = tokens
             /\ toknext' = toknext
             /\ \/ pc' = "done" /\ stack = <<>>
                \/ pc' = "ret" /\ Len(stack') = Len(stack) - 1
                \/ UNCHANGED vars]_vars

\* jtok_parse has returned the INVALID_PRIMITIVE of a value of a nested
\* object
C26_Witness ==
  /\ pc = "done"
  /\ status = INVALID_PRIMITIVE
  /\ toknext = 4
  /\ tokens[2].type = JTOK_OBJECT
  /\ tokens[3].parent = 2
  /\ tokens[0].end = INVALID_ARRAY_INDEX

\* toksuper as it was when the jtok_parse_object of the top frame was
\* entered: NO_PARENT for the root, the local key_idx of the calling object
\* frame, the array of a calling array frame
EntrySuper ==
  IF Len(stack) = 1 THEN NO_PARENT_IDX
  ELSE LET caller == stack[Len(stack) - 1]
       IN  IF caller.kind = "obj" THEN caller.key_idx ELSE caller.index

\* C27: when jtok_parse_object returns OK on the '}' of its object, toksuper
\* is what it was when the call was entered, the object's end is the offset
\* of the '}' plus 1 and the sibling of the object's last key is NO_SIBLING
C27_ClosePops ==
  [][((ObjMeets("KEY", {"}"}) \/ ObjMeets("COMMA", {"}"})) /\ status' = OK)
       => /\ pc' = "ret"
          /\ toksuper' = EntrySuper
          /\ tokens'[Top.index].end = pos + 1
          /\ json[tokens'[Top.index].end] = "}"
          /\ LET ks == {k \in 0..(toknext - 1) :
                          k # Top.index /\ tokens'[k].parent = Top.index}
             IN  /\ Cardinality(ks) = tokens'[Top.index].size
                 /\ \A k \in ks :
                      (\A m \in ks : m <= k)
                        => tokens'[k].sibling = NO_SIBLING_IDX]_vars

\* a nested object with a key has just been closed: toksuper is the key that
\* owns it
C27_Witness ==
  /\ pc = "ret"
  /\ status = OK
  /\ Len(stack) = 1
  /\ Top.calling = "object"
  /\ toksuper = Top.key_idx
  /\ tokens[toksuper].type = JTOK_STRING
  /\ tokens[toksuper + 1].type = JTOK_OBJECT
  /\ tokens[toksuper + 1].size = 1
  /\ tokens[toksuper + 1].end = pos + 1

\* C28: every step of the object parser's loop either returns, or ends the
\* loop with a status other than OK, or moves pos forward by at least one
\* byte; pos never passes the terminating NUL; and every call of jtok_parse
\* returns
C28_Terminates ==
  /\ [][(InObjFrame /\ json' = json)
          => (pc' = "ret" \/ pos' >= pos + 1)]_vars
  /\ [](pc = "run" => /\ pos <= Len(json)
                      /\ Ended => pos < Len(json))
  /\ (pc = "idle") ~> (pc = "done")

\* jtok_parse has returned after reading an input of MaxLen bytes to its end
C28_Witness ==
  /\ pc = "done"
  /\ Ended
  /\ Len(json) = MaxLen + 1
  /\ toknext >= 3

\* what every step keeps of the pool
PoolStep ==
  /\ \A i \in 0..(PoolMax - 1) :
       (i >= toknext' \/ i >= cap) => tokens'[i] = tokens[i]
  /\ (pc \in {"run", "ret"} /\ toknext' = toknext + 1)
       => /\ tokens'[toknext].parent = toksuper
          /\ tokens'[toknext].sibling = NO_SIBLING_IDX
          /\ tokens'[toknext].size = 0
  /\ (pc # "done" /\ status' = NOMEM /\ status # NOMEM)
       => (tokens' = tokens /\ toknext' = toknext)

\* C29: a parse starts with toknext = 0; every step leaves toknext as it is
\* or writes a new token to the slot toknext and adds one; no slot from the new toknext on
\* and no slot from the capacity on is written; toknext never exceeds the
\* capacity; a step that fails with NOMEM changes neither toknext nor a slot
C29_PoolOrder ==
  /\ [][(pc = "idle" /\ pc' # "idle" /\ ParseArgStatus = OK)
          => /\ toknext' = (IF status' = OK THEN 1 ELSE 0)
             /\ status' = OK
                  => tokens'[0] = NewTkn(JTOK_OBJECT, pos' - 1,
                                         INVALID_ARRAY_INDEX,
                                         NO_PARENT_IDX)]_vars
  /\ [][(pc \in {"run", "ret"})
          => (toknext' = toknext \/ toknext' = toknext + 1)]_vars
  /\ [][PoolStep]_vars
  /\ [](pc # "idle" => toknext <= cap)

\* the allocation of a nested OBJECT failed on a pool of fewer slots than the
\* array has: the slot behind the pool still holds the token of the parse
\* before
C29_Witness ==
  /\ pc = "done"
  /\ status = NOMEM
  /\ Replayed
  /\ cap < PoolMax
  /\ toknext = cap
  /\ prev.tokens[cap].type = JTOK_OBJECT
  /\ tokens[cap] = prev.tokens[cap]

\* C30: whenever the object parser expects a value, toksuper is the index of
\* the token allocated last, a STRING of size 0 whose parent is the OBJECT of
\* the frame; jtok_parse never has the status KEY_MULTIPLE_VAL or
\* INVALID_PARENT, and no STRING has a size above 1
C30_ValueState ==
  /\ (InObjFrame /\ Top.expecting = "VALUE")
       => /\ toksuper = toknext - 1
          /\ tokens[toksuper].type = JTOK_STRING
          /\ tokens[toksuper].size = 0
          /\ tokens[toksuper].parent = Top.index
          /\ tokens[Top.index].type = JTOK_OBJECT
  /\ status \notin {KEY_MULTIPLE_VAL, INVALID_PARENT}
  /\ \A i \in 0..(toknext - 1) :
       tokens[i].type = JTOK_STRING => tokens[i].size <= 1

\* a nested object expects the value of its key
C30_Witness ==
  /\ InObjFrame
  /\ Len(stack) = 2
  /\ Top.expecting = "VALUE"
  /\ toknext = 4
  /\ toksuper = 3
  /\ tokens[1].size = 0
  /\ tokens[3].parent = 2

(* ------------------------------ C31..C32 ------------------------------ *)
\* C31: every assertion of jtok_toktokcmp_object holds when it is called on
\* two OBJECT tokens of pools filled by successful parses, nested objects of
\* a root with exactly one key included
C31_AssertsHold ==
  call.op = "jtok_toktokcmp_object" =>
    /\ call.asserts
    /\ toktokcmp_object_asserts(call.P, call.a, Cur, call.b)

\* the second input is the first up to the root's closing brace, then more
Trailed == prev.n > 0 /\ prev.how = "trailed"

\* C32 (as stated): a second input that differs from the first only after
\* the root's closing brace gets the same status and tokens, and jtok_parse
\* reads no byte of it after that brace
C32_NoByteAfterRoot ==
  (Trailed /\ pc = "done") =>
    /\ status = OK
    /\ toknext = prev.n
    /\ tokens = prev.tokens
    /\ \A q \in jtok_new_parser_reads(script) : q <= Len(prev.json) - 1

\* C32 (amended): jtok_parse_object returns at the root's closing brace
\* without moving past it, so the first parse asks for no byte after the
\* brace; a second input that differs only after the brace gets the status
\* OK and the same tokens, its trailing bytes being read by the strlen of
\* jtok_new_parser alone, which reads all of them
C32_TrailingIgnored ==
  /\ []((pc = "done" /\ status = OK /\ prev.n = 0)
          => /\ Len(json) = pos + 1
             /\ At(pos) = "}"
             /\ tokens[0].end = pos + 1)
  /\ []((Trailed /\ pc = "run") => pos <= Len(prev.json) - 1)
  /\ []((Trailed /\ pc = "done")
          => /\ status = OK
             /\ toknext = prev.n
             /\ tokens = prev.tokens
             /\ pos = Len(prev.json) - 1
             /\ json = script
             /\ jtok_new_parser_reads(script) = 0..Len(script))
  /\ [][(/\ InObjFrame
         /\ Len(stack) = 1
         /\ Revealed(pos)
         /\ At(pos) = "}"
         /\ Top.expecting \in {"KEY", "COMMA"})
          => (/\ pc' = "ret"
              /\ stack' = <<>>
              /\ pos' = pos
              /\ status' = OK
              /\ json' = json)]_vars

\* an object with a nested container was parsed again with two bytes behind
\* its closing brace
C32_Witness ==
  /\ Trailed
  /\ pc = "done"
  /\ status = OK
  /\ toknext >= 3
  /\ Len(script) = Len(prev.json) + 2
  /\ script[Len(script)] = "a"
  /\ \E i \in 1..(toknext - 1) : tokens[i].type \in {JTOK_OBJECT, JTOK_ARRAY}

====
